---- MODULE Spec2Model ----
(***************************************************************************)
(* Model of twai.py: a Telegram bot whose image flow starts a background   *)
(* asyncio task (_image_api_call), animates a status message while polling *)
(* the task, and relays the result.                                        *)
(*                                                                         *)
(* Scheduling.  main() builds the Application without concurrent_updates   *)
(* and registers every handler with the default block=True, so the update  *)
(* fetcher awaits one handler to its end before it takes the next update   *)
(* from the queue.  The only code that runs while a handler is suspended   *)
(* is the asyncio tasks created with create_task (line 93).  A handler     *)
(* that raises leaves the ConversationHandler state as it was.             *)
(*                                                                         *)
(* Routing.  Inside a conversation the handlers of the current state are   *)
(* tried before the fallbacks, and the entry points only when there is no  *)
(* conversation.                                                           *)
(***************************************************************************)
EXTENDS Integers, Sequences, FiniteSets, TLC

\* ---------------------------------------------------------------- bounds
MaxUpdates == 3      \* updates the users send in one run
MaxTasks == 2        \* image flows started in one run
MaxPolls == 2        \* timed-out polls of one flow
MaxQueue == 2        \* updates waiting in the update queue
MaxUpdates2 == 2     \* updates the users send in one run of SpecTwo

Users == {"u1", "u2"}
Senders == {"u1"}    \* the sessions that send updates under Spec

\* ------------------------------------------------------------- constants
\* update texts: "Image ✨", "Cancel ❌", "/cancel", "Clear 🧹", free text
Texts == {"Image", "CancelBtn", "/cancel", "Clear", "fox"}
CancelTexts == {"CancelBtn", "/cancel"}

END == "END"
GET_IMAGE_PROMPT == "GET_IMAGE_PROMPT"

\* what the image provider can answer to the POST of _image_api_call
Responses == {"img", "network_error", "timeout", "http_status",
              "missing_field", "malformed"}

\* outcome of a Bot API call that the code wraps in try/except; a
\* BadRequest comes with its cause
BadRequests == {"BadRequest_not_modified", "BadRequest_not_found", "BadRequest_other"}
EditOutcomes == {"ok", "TimedOut"} \cup BadRequests
SendOutcomes == {"ok", "TimedOut", "NetworkError"}

NoTask == 0
NoHistory == -1
Unset == "unset"
None == "None"

VARIABLES queue, sent, conv, user_data, tasks, flows, run, cancelSel, reply, raised

vars == <<queue, sent, conv, user_data, tasks, flows, run, cancelSel, reply, raised>>

\* ------------------------------------------------------ pure definitions

\* the exception the body of the try block raises for a provider response
Raised(resp) ==
    CASE resp = "network_error" -> "RequestError"
      [] resp = "timeout"       -> "RequestError"
      [] resp = "http_status"   -> "HTTPStatusError"
      [] resp = "missing_field" -> "KeyError"
      [] resp = "malformed"     -> "ValueError"
      [] OTHER                  -> "none"

\* except (httpx.RequestError, KeyError, IndexError)
Caught(exc) == exc \in {"RequestError", "KeyError", "IndexError"}

\* how the coroutine _image_api_call ends for a provider response
ApiCall(resp) ==
    IF Raised(resp) = "none" THEN [state |-> "succeeded", result |-> resp]
    ELSE IF Caught(Raised(resp)) THEN [state |-> "failed", result |-> None]
    ELSE [state |-> "errored", result |-> Raised(resp)]

\* Task.cancel(): a task that is done ignores it, a pending one is marked
CancelTask(t) ==
    IF t.state = "pending" THEN [t EXCEPT !.must_cancel = TRUE] ELSE t

\* the handler main() selects for an update, by conversation state and text
Route(state, text) ==
    IF state = END
    THEN CASE text = "Image"   -> "image_entry"
           [] text = "/cancel" -> "none"
           [] text = "Clear"   -> "clear_command"
           [] OTHER            -> "handle_message"
    ELSE IF text = "/cancel" THEN "cancel_command"
         ELSE "generate_image_from_prompt"

NoRun == [pc |-> "idle", user |-> "u1", task |-> NoTask, i |-> 0, image |-> Unset,
          exc |-> "none"]

IdleConcurrent == TRUE

\* no handler is running: the application handles one update at a time
\* (line 178 builds it without concurrent_updates, the handlers block)
Idle == run.pc = "idle"

\* the three dialogue states of a session
DialogueState(u) ==
    IF run.pc # "idle" /\ run.user = u THEN "GENERATING"
    ELSE IF conv[u] = GET_IMAGE_PROMPT THEN "AWAITING_IMAGE_PROMPT"
    ELSE "IDLE"

\* the polling loop of u's flow is running and its task is pending
InLoop(u) ==
    /\ run.pc \in {"wait", "edit", "edited"}
    /\ run.user = u
    /\ tasks[run.task].state = "pending"

Pending(u) == {t \in 1..Len(tasks) : tasks[t].owner = u /\ tasks[t].state = "pending"}

\* ------------------------------------------------------------------ Init
Init ==
    /\ queue = <<>>
    /\ sent = 0
    /\ conv = [u \in Users |-> END]
    /\ user_data = [u \in Users |-> [history |-> NoHistory, active_task |-> NoTask]]
    /\ tasks = <<>>
    /\ flows = <<>>
    /\ run = NoRun
    /\ cancelSel = {}
    /\ reply = "none"
    /\ raised = FALSE

\* --------------------------------------------------------------- updates

\* a user sends an update; the update fetcher queues it
Send(u, m) ==
    /\ sent < MaxUpdates
    /\ Len(queue) < MaxQueue
    /\ sent' = sent + 1
    /\ queue' = Append(queue, [user |-> u, text |-> m])
    /\ cancelSel' = IF m \in CancelTexts /\ InLoop(u) THEN cancelSel \cup {run.task}
                    ELSE cancelSel
    /\ UNCHANGED <<conv, user_data, tasks, flows, run, reply, raised>>

Head1 == queue[1]

Takes(h) ==
    /\ Idle
    /\ queue # <<>>
    /\ Route(conv[Head1.user], Head1.text) = h
    /\ queue' = Tail(queue)

\* an update no handler matches ("/cancel" outside a conversation)
Unhandled ==
    /\ Takes("none")
    /\ UNCHANGED <<sent, conv, user_data, tasks, flows, run, cancelSel, reply, raised>>

\* image_entry, lines 79-85
image_entry ==
    /\ Takes("image_entry")
    /\ \E ok \in BOOLEAN :
         /\ conv' = IF ok THEN [conv EXCEPT ![Head1.user] = GET_IMAGE_PROMPT] ELSE conv
         /\ raised' = ~ok
    /\ UNCHANGED <<sent, user_data, tasks, flows, run, cancelSel, reply>>

\* variant: the handle is kept in one place shared by all sessions
ActiveTaskShared(u) == Len(tasks)

\* context.user_data['active_task'] of the session that sent the update
ActiveTask(u) == user_data[u].active_task

\* cancel_command, lines 155-160
cancel_command ==
    /\ Takes("cancel_command")
    /\ LET u == Head1.user
           t == ActiveTask(u)
       IN /\ tasks' = IF t # NoTask THEN [tasks EXCEPT ![t] = CancelTask(tasks[t])] ELSE tasks
          /\ \E ok \in BOOLEAN :
               /\ conv' = IF ok THEN [conv EXCEPT ![u] = END] ELSE conv
               /\ raised' = ~ok
    /\ UNCHANGED <<sent, user_data, flows, run, cancelSel, reply>>

\* clear_command, lines 70-75
clear_command ==
    /\ Takes("clear_command")
    /\ LET u == Head1.user
       IN /\ user_data' = [user_data EXCEPT ![u].history = NoHistory]
          /\ \E ok \in BOOLEAN :
               /\ reply' = IF ~ok THEN reply
                           ELSE IF user_data[u].history # NoHistory THEN "cleared"
                           ELSE "nothing_to_clear"
               /\ raised' = ~ok
    /\ UNCHANGED <<sent, conv, tasks, flows, run, cancelSel>>

\* handle_message, lines 163-174
handle_message ==
    /\ Takes("handle_message")
    /\ LET u == Head1.user
           h == IF user_data[u].history = NoHistory THEN 0 ELSE user_data[u].history
       IN \E action_ok \in BOOLEAN, llm_ok \in BOOLEAN, reply_ok \in BOOLEAN :
            /\ user_data' = IF ~action_ok THEN user_data
                            ELSE IF llm_ok THEN [user_data EXCEPT ![u].history = h + 1]
                            ELSE [user_data EXCEPT ![u].history = h]
            /\ raised' \in IF ~action_ok THEN {TRUE}
                           ELSE IF llm_ok /\ reply_ok THEN {FALSE}
                           ELSE BOOLEAN
    /\ UNCHANGED <<sent, conv, tasks, flows, run, cancelSel, reply>>

\* ------------------------------------------------- the generation task

\* variant: the coroutine runs on although cancel() has marked the task
RunnableIgnoringCancel(t) == t.state = "pending"

\* a pending task runs on unless cancel() has marked it
Runnable(t) == t.state = "pending" /\ ~t.must_cancel

\* the provider answers the POST of line 146 (or the request fails)
TaskRespond(t) ==
    /\ t \in 1..Len(tasks)
    /\ Runnable(tasks[t])
    /\ tasks[t].resp = Unset
    /\ \E resp \in Responses : tasks' = [tasks EXCEPT ![t].resp = resp]
    /\ UNCHANGED <<queue, sent, conv, user_data, flows, run, cancelSel, reply, raised>>

\* the coroutine is resumed with the answer and runs to its end, lines
\* 147-153; the task keeps the value returned or the exception raised
TaskFinish(t) ==
    /\ t \in 1..Len(tasks)
    /\ Runnable(tasks[t])
    /\ tasks[t].resp # Unset
    /\ tasks' = [tasks EXCEPT ![t].state = ApiCall(tasks[t].resp).state,
                              ![t].result = ApiCall(tasks[t].resp).result,
                              ![t].resp = Unset]
    /\ UNCHANGED <<queue, sent, conv, user_data, flows, run, cancelSel, reply, raised>>

\* the event loop throws CancelledError into a task marked by cancel();
\* the except clause of line 151 does not catch it
CancelledState(t) == [t EXCEPT !.state = "cancelled", !.must_cancel = FALSE]

TaskCancelled(t) ==
    /\ t \in 1..Len(tasks)
    /\ tasks[t].state = "pending"
    /\ tasks[t].must_cancel
    /\ tasks' = [tasks EXCEPT ![t] = CancelledState(tasks[t])]
    /\ UNCHANGED <<queue, sent, conv, user_data, flows, run, cancelSel, reply, raised>>

\* ----------------------------------------------------- the image flow

NewTask(u, p) == [owner |-> u, prompt |-> p, state |-> "pending", result |-> None,
                  resp |-> Unset, must_cancel |-> FALSE]

NewFlow == [status |-> "live", text |-> "Initializing", log |-> <<>>,
            end |-> "running", photo |-> <<>>]

Log(f, e) == [f EXCEPT !.log = Append(@, e)]

\* an exception leaves the handler: the conversation state is not updated.
\* The flow's end names what raised: the task ("raised_task") or a Bot API
\* call ("raised_bot")
Raise(t, f, cause) ==
    /\ run' = NoRun
    /\ raised' = TRUE
    /\ flows' = [flows EXCEPT ![t] = [f EXCEPT !.end = cause]]

\* generate_image_from_prompt, lines 87-94: status message, task, slot
generate_image_from_prompt ==
    /\ Takes("generate_image_from_prompt")
    /\ Len(tasks) < MaxTasks
    /\ LET u == Head1.user
           t == Len(tasks) + 1
       IN \E ok \in BOOLEAN :
            /\ raised' = ~ok
            /\ IF ok
               THEN /\ tasks' = Append(tasks, NewTask(u, Head1.text))
                    /\ flows' = Append(flows, NewFlow)
                    /\ user_data' = [user_data EXCEPT ![u].active_task = t]
                    /\ run' = [pc |-> "wait", user |-> u, task |-> t, i |-> 0,
                               image |-> Unset, exc |-> "none"]
               ELSE UNCHANGED <<tasks, flows, user_data, run>>
    /\ UNCHANGED <<sent, conv, cancelSel, reply>>

\* variant: wait_for without the shield, the timeout cancels the task
AfterTimeoutNoShield(t) == [t EXCEPT !.must_cancel = TRUE]

\* lines 99-100: the bounded wait expires while the task is pending; the
\* shield keeps the timeout away from the task
AfterTimeout(t) == t

PollTimeout ==
    /\ run.pc = "wait"
    /\ tasks[run.task].state = "pending"
    /\ run.i < MaxPolls
    /\ tasks' = [tasks EXCEPT ![run.task] = AfterTimeout(tasks[run.task])]
    /\ run' = [run EXCEPT !.pc = "edit"]
    /\ UNCHANGED <<queue, sent, conv, user_data, flows, cancelSel, reply, raised>>

\* the handler returns ConversationHandler.END
Return(t, f) ==
    /\ run' = NoRun
    /\ raised' = FALSE
    /\ flows' = [flows EXCEPT ![t] = [f EXCEPT !.end = "returned"]]
    /\ conv' = [conv EXCEPT ![run.user] = END]

\* lines 106-110: cancellation notice, main menu, END
CancelBranch(t) ==
    \E edit_ok \in BOOLEAN, menu_ok \in BOOLEAN :
      LET f1 == Log(flows[t], "cancel_notice")
          f2 == [Log(f1, "menu") EXCEPT !.status = "final", !.text = "Cancelled"]
      IN IF ~edit_ok THEN Raise(t, f1, "raised_bot") /\ UNCHANGED conv
         ELSE IF ~menu_ok THEN Raise(t, f2, "raised_bot") /\ UNCHANGED conv
         ELSE Return(t, f2)

\* line 99: the wait ends because the task is done
PollWake ==
    /\ run.pc = "wait"
    /\ tasks[run.task].state # "pending"
    /\ CASE tasks[run.task].state \in {"succeeded", "failed"} ->
              /\ run' = [run EXCEPT !.pc = "result"]
              /\ UNCHANGED <<flows, conv, raised>>
         [] tasks[run.task].state = "errored" ->
              /\ Raise(run.task, flows[run.task], "raised_task")
              /\ UNCHANGED conv
         [] OTHER -> CancelBranch(run.task)
    /\ UNCHANGED <<queue, sent, user_data, tasks, cancelSel, reply>>

\* the loop test of line 97
LoopTest(t) == IF t.state = "pending" THEN "wait" ELSE "result"

\* except BadRequest: pass, line 104
Swallowed(r) == r \in BadRequests

\* line 103: the call of edit_message_text and its outcome
EditCall ==
    /\ run.pc = "edit"
    /\ \E r \in EditOutcomes :
         LET f1 == Log(flows[run.task], "edit")
             f2 == [f1 EXCEPT !.text = "Processing"]
         IN /\ flows' = [flows EXCEPT ![run.task] = IF r = "ok" THEN f2 ELSE f1]
            /\ run' = [run EXCEPT !.pc = "edited", !.exc = IF r = "ok" THEN "none" ELSE r]
    /\ UNCHANGED <<queue, sent, conv, user_data, tasks, cancelSel, reply, raised>>

\* lines 104-105: the except clause, i += 1, then the loop test
EditFrame ==
    /\ run.pc = "edited"
    /\ IF run.exc = "none" \/ Swallowed(run.exc)
       THEN /\ run' = [run EXCEPT !.i = @ + 1, !.pc = LoopTest(tasks[run.task]),
                                  !.exc = "none"]
            /\ UNCHANGED <<flows, raised>>
       ELSE Raise(run.task, flows[run.task], "raised_bot")
    /\ UNCHANGED <<queue, sent, conv, user_data, tasks, cancelSel, reply>>

\* del context.user_data['active_task'], line 113
ClearSlot(d) == [d EXCEPT !.active_task = NoTask]

\* variant: the status message is deleted inside the animation loop
AfterDeleteInLoop == "edit"

\* where the flow goes once the status message is deleted, line 114 to 116
AfterDelete == "deliver"

\* lines 112-114: result(), del user_data['active_task'], delete_message
ReadResult ==
    /\ run.pc = "result"
    /\ IF tasks[run.task].state \in {"succeeded", "failed"}
       THEN /\ user_data' = [user_data EXCEPT ![run.user] = ClearSlot(@)]
            /\ \E ok \in BOOLEAN :
                 LET f1 == Log(flows[run.task], "delete")
                 IN IF ok
                    THEN /\ run' = [run EXCEPT !.pc = AfterDelete,
                                               !.image = tasks[run.task].result]
                         /\ flows' = [flows EXCEPT ![run.task] =
                                        [f1 EXCEPT !.status = "deleted"]]
                         /\ UNCHANGED raised
                    ELSE Raise(run.task, f1, "raised_bot")
       ELSE /\ Raise(run.task, flows[run.task], "raised_task")
            /\ UNCHANGED user_data
    /\ UNCHANGED <<queue, sent, conv, tasks, cancelSel, reply>>

\* line 116: a BytesIO object is true whatever it holds, None is false
Truthy(image) == image # None

\* variant: the caption is sent without the prompt
PhotoWithoutPrompt(image, prompt) == <<[photo |-> image, caption |-> ""]>>

\* send_photo(photo=image_bytes, caption=... prompt ...), lines 118-121
Photo(image, prompt) == <<[photo |-> image, caption |-> prompt]>>

\* the apology of lines 122-125 for a failed send_photo
Apology(r) == IF r = "TimedOut" THEN "apology_timeout" ELSE "apology_error"

\* variant: only the TimedOut of send_photo is caught
SendCaughtTimedOutOnly(r) == r = "TimedOut"

\* except TimedOut, except Exception: lines 122-125 catch whatever
\* send_photo raises
SendCaught(r) == r # "ok"

\* lines 116-127
Deliver ==
    /\ run.pc = "deliver"
    /\ LET t == run.task
       IN IF Truthy(run.image)
          THEN \E r \in SendOutcomes, ok \in BOOLEAN :
                 LET f1 == [Log(flows[t], "photo") EXCEPT
                               !.photo = Photo(run.image, tasks[t].prompt)]
                     f2 == IF r = "ok" THEN f1 ELSE Log(f1, Apology(r))
                 IN IF r # "ok" /\ ~SendCaught(r) THEN Raise(t, f1, "raised_bot")
                    ELSE IF r = "ok" \/ ok
                    THEN /\ flows' = [flows EXCEPT ![t] = f2]
                         /\ run' = [run EXCEPT !.pc = "menu"]
                         /\ UNCHANGED raised
                    ELSE Raise(t, f2, "raised_bot")
          ELSE \E ok \in BOOLEAN :
                 LET f1 == Log(flows[t], "apology_failed")
                 IN IF ok
                    THEN /\ flows' = [flows EXCEPT ![t] = f1]
                         /\ run' = [run EXCEPT !.pc = "menu"]
                         /\ UNCHANGED raised
                    ELSE Raise(t, f1, "raised_bot")
    /\ UNCHANGED <<queue, sent, conv, user_data, tasks, cancelSel, reply>>

\* lines 129-130: menu_command, then END
FinalMenu ==
    /\ run.pc = "menu"
    /\ \E ok \in BOOLEAN :
         LET f1 == Log(flows[run.task], "menu")
         IN IF ok THEN Return(run.task, f1)
            ELSE Raise(run.task, f1, "raised_bot") /\ UNCHANGED conv
    /\ UNCHANGED <<queue, sent, user_data, tasks, cancelSel, reply>>

Next ==
    \/ \E u \in Senders, m \in Texts : Send(u, m)
    \/ Unhandled
    \/ image_entry
    \/ cancel_command
    \/ clear_command
    \/ handle_message
    \/ generate_image_from_prompt
    \/ \E t \in 1..MaxTasks : TaskRespond(t)
    \/ \E t \in 1..MaxTasks : TaskFinish(t)
    \/ \E t \in 1..MaxTasks : TaskCancelled(t)
    \/ PollTimeout
    \/ PollWake
    \/ EditCall
    \/ EditFrame
    \/ ReadResult
    \/ Deliver
    \/ FinalMenu

\* ------------------------------------------------------- two sessions
\* SpecTwo: both sessions send updates.  It starts where each session has
\* had "Image" handled already and is asked for its prompt.

TextsOf(u) == IF u = "u1" THEN {"Image", "/cancel", "fox"} ELSE {"fox", "/cancel", "Clear"}

Init2 ==
    /\ queue = <<>>
    /\ sent = 0
    /\ conv = [u \in Users |-> GET_IMAGE_PROMPT]
    /\ user_data = [u \in Users |-> [history |-> NoHistory, active_task |-> NoTask]]
    /\ tasks = <<>>
    /\ flows = <<>>
    /\ run = NoRun
    /\ cancelSel = {}
    /\ reply = "none"
    /\ raised = FALSE

Send2(u, m) ==
    /\ sent < MaxUpdates2
    /\ m \in TextsOf(u)
    /\ Send(u, m)

Next2 ==
    \/ \E u \in Users, m \in Texts : Send2(u, m)
    \/ Unhandled
    \/ image_entry
    \/ cancel_command
    \/ clear_command
    \/ handle_message
    \/ generate_image_from_prompt
    \/ \E t \in 1..MaxTasks : TaskRespond(t)
    \/ \E t \in 1..MaxTasks : TaskFinish(t)
    \/ \E t \in 1..MaxTasks : TaskCancelled(t)
    \/ PollTimeout
    \/ PollWake
    \/ EditCall
    \/ EditFrame
    \/ ReadResult
    \/ Deliver
    \/ FinalMenu

\* ---------------------------------------------------------------- claims

TaskIds == 1..Len(tasks)

\* the update fetcher hands the update m of session u to its handler
Dispatching(u, m) ==
    /\ Idle
    /\ queue # <<>>
    /\ Head1 = [user |-> u, text |-> m]
    /\ queue' = Tail(queue)

\* calls of edit_message_text on the status message of a flow
Edits(f) == Cardinality({k \in 1..Len(f.log) : f.log[k] \in {"edit", "cancel_notice"}})

\* C1: in every state every session has at most one pending generation
\* task.
C1_AtMostOnePending == \A u \in Users : Cardinality(Pending(u)) <= 1

\* C2: a poll that times out leaves the task as it was, and the result the
\* flow reads after the loop is the result of the task, however many polls
\* timed out and also when the task finished between two polls.
C2_PollKeepsResult ==
    [][ /\ (run.pc = "wait" /\ run'.pc = "edit") => tasks' = tasks
        /\ (run.pc = "result" /\ run'.pc = "deliver") =>
              /\ tasks[run.task].state \in {"succeeded", "failed"}
              /\ run'.image = tasks[run.task].result ]_vars

C2_Witness ==
    /\ run.pc = "deliver"
    /\ run.i >= 1
    /\ run.image = "img"

\* C3: a pending task on which cancel was requested ends cancelled: it stays
\* marked until it is cancelled and never becomes succeeded, failed or
\* errored, also when the provider's answer had already arrived; and
\* cancel_command marks the pending task of the slot.
C3_CancelWins ==
    [][ /\ \A t \in TaskIds :
             (tasks[t].state = "pending" /\ tasks[t].must_cancel) =>
                /\ tasks'[t].state \in {"pending", "cancelled"}
                /\ tasks'[t].state = "pending" => tasks'[t].must_cancel
        /\ \A u \in Users :
             (/\ Dispatching(u, "/cancel")
              /\ conv[u] = GET_IMAGE_PROMPT
              /\ user_data[u].active_task # NoTask
              /\ tasks[user_data[u].active_task].state = "pending") =>
                tasks'[user_data[u].active_task].must_cancel ]_vars

C3_Witness ==
    \E t \in TaskIds : tasks[t].state = "cancelled" /\ tasks[t].resp = "img"

\* C4: a flow during whose polling loop the user selected Cancel, while its
\* task was pending, does not return without the cancellation notice being
\* the final content of its status message.
C4_CancelShowsNotice ==
    \A t \in cancelSel :
        flows[t].end = "returned" =>
            (flows[t].status = "final" /\ flows[t].text = "Cancelled")

\* C5: no photo is sent by a flow during whose polling loop the user
\* selected Cancel while its task was pending.
C5_NoPhotoAfterCancel == \A t \in cancelSel : flows[t].photo = <<>>

\* C6: whenever a session is in IDLE and none of its tasks is pending, its
\* active_task slot is empty.
C6_SlotEmptyWhenIdle ==
    \A u \in Users :
        (DialogueState(u) = "IDLE" /\ Pending(u) = {}) => user_data[u].active_task = NoTask

\* C7: for every upstream problem (network error, timeout, non-success
\* status, missing field, malformed payload) the call ends with the value
\* None, so the task becomes failed.
C7_SoftFailure ==
    [][ \A t \in TaskIds :
          (/\ tasks[t].state = "pending"
           /\ tasks[t].resp \in Responses \ {"img"}
           /\ tasks'[t].state \notin {"pending", "cancelled"}) =>
              (tasks'[t].state = "failed" /\ tasks'[t].result = None) ]_vars

\* C8: a flow whose task met an upstream failure, and none of whose Bot API
\* calls raised, ends by returning END with the status message deleted and
\* the failure apology sent.
C8_FailureApology ==
    \A t \in TaskIds :
        (tasks[t].state \in {"failed", "errored"}
            /\ flows[t].end \notin {"running", "raised_bot"}) =>
           /\ flows[t].end = "returned"
           /\ flows[t].status = "deleted"
           /\ \E k \in 1..Len(flows[t].log) : flows[t].log[k] = "apology_failed"

\* C9: once the status message of a flow is deleted or holds the
\* cancellation notice, no step calls edit_message_text on it or changes it.
C9_NoEditAfterEnd ==
    [][ \A t \in 1..Len(flows) :
          flows[t].status \in {"deleted", "final"} =>
             /\ Edits(flows'[t]) = Edits(flows[t])
             /\ flows'[t].status = flows[t].status
             /\ flows'[t].text = flows[t].text ]_vars

C9_Witness ==
    \E t \in 1..Len(flows) :
        /\ flows[t].status = "deleted"
        /\ Edits(flows[t]) >= 1
        /\ flows[t].end = "returned"

\* C10: the success path.  "Image" handled in IDLE without an error leads to
\* AWAITING_IMAGE_PROMPT and starts nothing; a text P handled there without
\* an error starts exactly one pending task, with prompt P, and leads to
\* GENERATING; a flow that returns with its task succeeded with bytes B, no
\* Cancel having been selected during its loop, has deleted the status
\* message, has called send_photo with B and a caption holding P, and leaves
\* the session in IDLE.
C10_SuccessPath ==
    [][ /\ \A u \in Users :
             (Dispatching(u, "Image") /\ DialogueState(u) = "IDLE" /\ ~raised') =>
                ((DialogueState(u))' = "AWAITING_IMAGE_PROMPT" /\ tasks' = tasks)
        /\ \A u \in Users, m \in Texts \ {"/cancel"} :
             (/\ Dispatching(u, m)
              /\ DialogueState(u) = "AWAITING_IMAGE_PROMPT"
              /\ ~raised') =>
                /\ tasks' = Append(tasks, [owner |-> u, prompt |-> m, state |-> "pending",
                                           result |-> None, resp |-> Unset,
                                           must_cancel |-> FALSE])
                /\ (DialogueState(u))' = "GENERATING"
        /\ \A t \in TaskIds :
             (/\ flows[t].end = "running"
              /\ flows'[t].end = "returned"
              /\ tasks[t].state = "succeeded"
              /\ t \notin cancelSel) =>
                /\ flows'[t].status = "deleted"
                /\ flows'[t].photo = <<[photo |-> tasks[t].result,
                                        caption |-> tasks[t].prompt]>>
                /\ (DialogueState(tasks[t].owner))' = "IDLE" ]_vars

C10_Witness ==
    \E t \in TaskIds :
        /\ flows[t].end = "returned"
        /\ tasks[t].state = "succeeded"
        /\ tasks[t].prompt = "fox"
        /\ flows[t].photo = <<[photo |-> "img", caption |-> "fox"]>>
        /\ t \notin cancelSel
        /\ DialogueState(tasks[t].owner) = "IDLE"

\* entries e in the log of a flow
Count(f, e) == Cardinality({k \in 1..Len(f.log) : f.log[k] = e})

LastEntry(f) == f.log[Len(f.log)]

DeliveryApologies == {"apology_timeout", "apology_error"}

\* C11: the step that delivers a succeeded task's image calls send_photo
\* once; a failure of send_photo never leaves the handler, a text apology
\* is the next call instead; and a flow that returns after such an apology
\* has called send_photo once, has restored the menu last and leaves the
\* session in IDLE.
C11_DeliveryApology ==
    [][ /\ (run.pc = "deliver" /\ Truthy(run.image) /\ run' # run) =>
              LET f == flows'[run.task]
              IN /\ Count(f, "photo") = 1
                 /\ f.end = "raised_bot" => LastEntry(f) \in DeliveryApologies
                 /\ f.end = "running" => run'.pc = "menu"
        /\ \A t \in TaskIds :
             (/\ flows[t].end = "running"
              /\ flows'[t].end = "returned"
              /\ \E e \in DeliveryApologies : Count(flows[t], e) = 1) =>
                /\ Count(flows'[t], "photo") = 1
                /\ LastEntry(flows'[t]) = "menu"
                /\ (DialogueState(tasks[t].owner))' = "IDLE" ]_vars

C11_Witness ==
    \E t \in TaskIds :
        /\ tasks[t].state = "succeeded"
        /\ flows[t].end = "returned"
        /\ Count(flows[t], "apology_error") = 1
        /\ DialogueState(tasks[t].owner) = "IDLE"

\* C12: when clear_command handles "Clear", a non-empty history is emptied;
\* an empty history (none stored, or an empty list) leaves the session data
\* as it is and the reply is "nothing to clear".
C12_Clear ==
    [][ \A u \in Users :
          (Dispatching(u, "Clear") /\ conv[u] = END) =>
             LET h == user_data[u].history
             IN /\ h > 0 => user_data'[u].history \in {NoHistory, 0}
                /\ h \in {NoHistory, 0} =>
                      /\ user_data' = user_data
                      /\ ~raised' => reply' = "nothing_to_clear" ]_vars

\* the failures of an edit that are harmless: the text is unchanged, or the
\* message is gone
BenignEditFailures == {"BadRequest_not_modified", "BadRequest_not_found"}

\* C13: the animation loop goes on to the next frame after an edit that
\* succeeded or failed for a harmless cause, and an edit that failed for any
\* other cause leaves the handler.
C13_NarrowCatch ==
    [][ (run.pc = "edited" /\ run' # run) =>
           IF run.exc \in BenignEditFailures \cup {"none"}
           THEN run'.pc \in {"wait", "result"} /\ run'.i = run.i + 1
           ELSE flows'[run.task].end = "raised_bot" ]_vars

\* a step of session a: one of its updates arrives or is handed to a
\* handler, its flow moves, or one of its tasks changes
StepOf(a) ==
    \/ \E m \in Texts : queue' = Append(queue, [user |-> a, text |-> m])
    \/ \E m \in Texts : Dispatching(a, m)
    \/ run.pc # "idle" /\ run.user = a /\ run' # run
    \/ \E t \in TaskIds : tasks[t].owner = a /\ tasks'[t] # tasks[t]

\* C14: a step of one session leaves the history, the active task slot, the
\* conversation state, the dialogue state and the tasks of every other
\* session unchanged; a Cancel of one session does not mark a task of
\* another.
C14_Independent ==
    [][ \A a \in Users : StepOf(a) =>
          \A b \in Users \ {a} :
             /\ user_data'[b] = user_data[b]
             /\ conv'[b] = conv[b]
             /\ (DialogueState(b))' = DialogueState(b)
             /\ \A t \in TaskIds : tasks[t].owner = b =>
                   (tasks'[t] = tasks[t] /\ flows'[t] = flows[t]) ]_vars

\* session a has had its Cancel handled (nothing else takes it out of its
\* conversation without a task or a history) while session b has a pending
\* task, which is not marked
C14_Witness ==
    \E a \in Users, b \in Users :
        /\ a # b
        /\ Pending(b) # {}
        /\ \A t \in Pending(b) : ~tasks[t].must_cancel
        /\ conv[a] = END
        /\ \A t \in TaskIds : tasks[t].owner # a
        /\ user_data[a].history = NoHistory
        /\ queue = <<>>
        /\ Idle
        /\ ~raised

\* C15: handling a Cancel (the button or the command) starts no task and
\* changes no task that is already done, and a Cancel handled in IDLE, such
\* as a second Cancel in a row, changes nothing of the session.
C15_CancelIdempotent ==
    [][ \A u \in Users, m \in CancelTexts :
          Dispatching(u, m) =>
             /\ Len(tasks') = Len(tasks)
             /\ \A t \in TaskIds : tasks[t].state # "pending" => tasks'[t] = tasks[t]
             /\ DialogueState(u) = "IDLE" =>
                   (user_data' = user_data /\ conv' = conv /\ tasks' = tasks) ]_vars

TerminalStates == {"succeeded", "failed", "cancelled"}

\* C16: every task is pending or in one of the terminal states succeeded
\* (with image bytes), failed (with None) and cancelled, and a task in a
\* terminal state never changes again.
C16_ThreeOutcomes ==
    [][ \A t \in 1..Len(tasks') :
          /\ tasks'[t].state \in TerminalStates \cup {"pending"}
          /\ tasks'[t].state = "succeeded" => tasks'[t].result = "img"
          /\ tasks'[t].state = "failed" => tasks'[t].result = None
          /\ (t \in TaskIds /\ tasks[t].state \in TerminalStates) => tasks'[t] = tasks[t] ]_vars

\* C17: cancellation is requested only by the handling of a Cancel of the
\* session that owns the task, while the task is pending; a task is started
\* without such a request, and it becomes cancelled only from pending with
\* the request made.  No other step (a poll timeout, a failed edit of the
\* status message, the end of a flow) requests or performs a cancellation.
C17_UserInitiatedOnly ==
    [][ /\ \A t \in TaskIds :
             /\ (tasks'[t].must_cancel /\ ~tasks[t].must_cancel) =>
                    /\ tasks[t].state = "pending"
                    /\ \E m \in CancelTexts : Dispatching(tasks[t].owner, m)
             /\ (tasks'[t].state = "cancelled" /\ tasks[t].state # "cancelled") =>
                    (tasks[t].state = "pending" /\ tasks[t].must_cancel)
        /\ \A t \in (1..Len(tasks')) \ TaskIds :
             tasks'[t].state = "pending" /\ ~tasks'[t].must_cancel ]_vars

C17_Witness ==
    \E t \in TaskIds :
        /\ tasks[t].state = "cancelled"
        /\ flows[t].end = "raised_bot"
        /\ Count(flows[t], "edit") >= 1

\* C18: while an image flow of a session is running, from the handling of
\* its prompt to its last step, no update is handed to a handler (so no text
\* of the session reaches handle_message and no other flow starts), the
\* history of the session does not change, no task is started, and the slot
\* of the session changes only when this flow removes the handle of its own
\* task.
C18_OneFlowAtATime ==
    [][ \A u \in Users :
          DialogueState(u) = "GENERATING" =>
             /\ Len(queue') >= Len(queue)
             /\ user_data'[u].history = user_data[u].history
             /\ Len(tasks') = Len(tasks)
             /\ user_data'[u].active_task # user_data[u].active_task =>
                    /\ run.pc = "result"
                    /\ user_data[u].active_task = run.task
                    /\ user_data'[u].active_task = NoTask ]_vars

\* a plain text of the session waits in the queue while the flow of the
\* session is at its last step
C18_Witness ==
    /\ run.pc = "menu"
    /\ \E k \in 1..Len(queue) : queue[k] = [user |-> run.user, text |-> "fox"]

\* C19: whenever a task of a session is pending, the slot of the session
\* holds that task; and when a flow removes the slot after reading its
\* result, the slot holds the task of that flow.
C19_SlotHoldsPending ==
    /\ \A u \in Users : \A t \in Pending(u) : user_data[u].active_task = t
    /\ (run.pc = "result" /\ tasks[run.task].state \in {"succeeded", "failed"}) =>
           user_data[run.user].active_task = run.task

\* the terminal outcomes a flow has shown to the user
Outcomes(f) == Count(f, "photo") + Count(f, "apology_failed") + Count(f, "cancel_notice")

\* C20: no flow shows two terminal outcomes (a call of send_photo, the
\* apology for a failed generation, the cancellation notice); a flow that
\* has ended, unless a call of the bot itself raised, shows exactly one; and
\* the status message is deleted before a photo or a failure apology is
\* sent.
C20_OneOutcome ==
    \A t \in 1..Len(flows) :
        LET f == flows[t]
        IN /\ Outcomes(f) <= 1
           /\ f.end \in {"returned", "raised_task"} => Outcomes(f) = 1
           /\ \A k \in 1..Len(f.log) :
                 f.log[k] \in {"photo", "apology_failed"} =>
                    \E j \in 1..(k - 1) : f.log[j] = "delete"

Spec == Init /\ [][Next]_vars

SpecTwo == Init2 /\ [][Next2]_vars
====
